---- MODULE Spec2Model ----
(***************************************************************************)
(* Wi-Fi scan backend: the nl80211 scan driver and BSS attribute walk of   *)
(* src/lib_rust.rs, and the neli-wifi based scan, connected-AP lookup and  *)
(* channel selector of src/backend/src/lib_rust.rs.                        *)
(*                                                                         *)
(* Signal strengths are kept in mBm (1/100 dBm) so that the f32 weights of *)
(* the source are exact integers here: weight = mBm + 10000.               *)
(***************************************************************************)
EXTENDS Integers, Sequences, FiniteSets, TLC

VARIABLES
    \* ---- scan driver (src/lib_rust.rs, scan_all_ssids) ----
    spc,        \* position of the call: Idle, Waiting, WaitDone, Dumping, Done, Failed
    ifaces,     \* interface list returned by get_interfaces_info (index fields)
    ifindex,    \* interface index resolved by the call, None before
    elapsed,    \* start.elapsed() of wait_scan_done, in ms
    sent,       \* requests handed to send_nl, in order
    lastRecv,   \* what the last iter.next() returned
    polls,      \* parity of the wait loop's iteration count
    notified,   \* the definitive notification the wait loop received, if any
    nmsgs,      \* data messages consumed by the dump loop
    out,        \* the dump loop's `out` vector
    sresult,    \* what scan_all_ssids returned
    \* ---- neli-wifi backend (src/backend/src/lib_rust.rs) ----
    op,         \* the public operation called: scan, connected_bssid, best_channel
    bpc,        \* position of the call: Scan, Lookup, Select, Done, Failed
    bifaces,    \* interface list of the latest get_interfaces_info
    breqs,      \* requests made to the kernel after interface resolution
    rows,       \* Vec<BssRow> the selector works on
    connected,  \* Option<[u8; 6]> from get_connected_bssid
    bresult,    \* what the operation returned
    \* ---- BSS attribute walk (src/lib_rust.rs, parse_bss) ----
    wpc,        \* position of the walk: Walk, Done, Panic
    buf,        \* the nested attribute bytes given to parse_bss
    pos,        \* offset of `rem` in buf
    row,        \* the BssRow being filled
    hi,         \* end of the furthest byte range taken from buf so far
    seen,       \* offsets of the entries whose fields were taken
    \* ---- frequency mappers (both files) ----
    mpc,        \* Map while a frequency is being mapped, Off otherwise
    mapFreq,    \* the frequency in MHz given to the mappers
    nlChannel,  \* freq_to_channel(f) of src/lib_rust.rs, None until applied
    beChannel,  \* freq_to_channel(&f) of the backend, None until applied
    beBand      \* freq_band(f) of the backend, None until applied

scanVars == <<spc, ifaces, ifindex, elapsed, sent, lastRecv, polls, notified, nmsgs, out, sresult>>

backVars == <<op, bpc, bifaces, breqs, rows, connected, bresult>>

walkVars == <<wpc, buf, pos, row, hi, seen>>

mapVars == <<mpc, mapFreq, nlChannel, beChannel, beBand>>

vars == <<scanVars, backVars, walkVars, mapVars>>

\* Option<T>: None is the empty tuple, Some(x) the one-element tuple.
None == <<>>
Some(x) == <<x>>
IsSome(o) == Len(o) = 1
Unwrap(o) == o[1]

\* ------------------------------------------------------------------ bounds
\* most interfaces get_interfaces_info enumerates
MaxIfaces == 2
\* most data messages of one dump
MaxDumpMsgs == 2
\* most NL80211_ATTR_BSS attributes in one dump message
MaxBssPerMsg == 2
\* granularity of the wall clock between two polls, in ms
TickMs == 1000
\* the clock is tracked up to this many ms; later instants behave alike
ClockCapMs == 5000
\* most BSS reports of one scan in the backend's calls
MaxScanRows == 1
\* most observations the selectors are run on
MaxRows == 3
\* most attributes of an encoded BSS payload
MaxAttrs == 2
\* longest buffer of arbitrary bytes given to the walk
MaxRawLen == 5
\* highest frequency in MHz given to the mappers
MaxFreqMHz == 7200

\* ------------------------------------------------- constants of the source
TIMEOUT_MS == 4000
SLEEP_MS == 20

\* ======================================================================
\* Scan driver, src/lib_rust.rs
\* ======================================================================

\* An interface's index field is Option<Vec<u8>>: absent, empty, too short for
\* a u32, or four little-endian bytes.
IndexValues == {None, Some(<<>>), Some(<<3, 0>>), Some(<<2, 0, 0, 0>>), Some(<<3, 0, 0, 0>>)}

IfaceLists == UNION {[1..n -> IndexValues] : n \in 0..MaxIfaces}

\* |i| i.index.as_ref().map(|v| !v.is_empty()).unwrap_or(false)
UsableIndex(ix) == IsSome(ix) /\ Len(Unwrap(ix)) > 0

\* ifaces.into_iter().find(..): position of the first usable interface, 0 if none
FindIface(l) ==
    IF \E i \in 1..Len(l) : UsableIndex(l[i])
    THEN CHOOSE i \in 1..Len(l) :
            UsableIndex(l[i]) /\ \A j \in 1..(i - 1) : ~UsableIndex(l[j])
    ELSE 0

\* le_u32: Err when fewer than four bytes, else the little-endian value
le_u32(b) ==
    IF Len(b) < 4 THEN [ok |-> FALSE, val |-> 0]
    ELSE [ok |-> TRUE,
          val |-> b[1] + 256 * b[2] + 65536 * b[3] + 16777216 * b[4]]

Fail(kind) == [kind |-> kind, rows |-> <<>>]
Ok(rs) == [kind |-> "Ok", rows |-> rs]
\* the call has not returned yet
Running == [kind |-> "Running", rows |-> <<>>]

\* mutant: the loop never looks at the deadline
WaitLoopRuns_NoDeadline(e) == TRUE

\* while start.elapsed() < timeout
WaitLoopRuns(e) == e < TIMEOUT_MS

\* the backend is not in use
BackOff ==
    /\ op = "none"
    /\ bpc = "Off"
    /\ bifaces = <<>>
    /\ breqs = <<>>
    /\ rows = <<>>
    /\ connected = None
    /\ bresult = [kind |-> "Running", from |-> "none", ch |-> 0, rows |-> <<>>, mac |-> None]

\* BssRow::default()
DefaultRow == [ssid |-> None, bssid |-> None, freq_mhz |-> None, signal |-> None, channel |-> None]

\* no attribute walk is under way
WalkOff ==
    /\ wpc = "Off"
    /\ buf = <<>>
    /\ pos = 0
    /\ row = DefaultRow
    /\ hi = 0
    /\ seen = <<>>

\* no frequency is being mapped
MapOff ==
    /\ mpc = "Off"
    /\ mapFreq = 0
    /\ nlChannel = None
    /\ beChannel = None
    /\ beBand = None

\* the scan driver is not in use
ScanOff ==
    /\ spc = "Off"
    /\ ifaces = <<>>
    /\ ifindex = None
    /\ elapsed = 0
    /\ sent = <<>>
    /\ lastRecv = "None"
    /\ polls = 0
    /\ notified = "None"
    /\ nmsgs = 0
    /\ out = <<>>
    /\ sresult = [kind |-> "Running", rows |-> <<>>]

ScanInit ==
    /\ spc = "Idle"
    /\ ifaces = <<>>
    /\ ifindex = None
    /\ elapsed = 0
    /\ sent = <<>>
    /\ lastRecv = "None"
    /\ polls = 0
    /\ notified = "None"
    /\ nmsgs = 0
    /\ out = <<>>
    /\ sresult = Running
    /\ BackOff
    /\ WalkOff
    /\ MapOff

\* scan_all_ssids up to and including trigger_scan: connect, enumerate, resolve
\* the interface index, send the trigger request.
scan_all_ssids ==
    /\ UNCHANGED <<backVars, walkVars, mapVars>>
    /\ spc = "Idle"
    /\ UNCHANGED <<elapsed, lastRecv, polls, notified, nmsgs, out>>
    /\ \E connectOk \in BOOLEAN, infoOk \in BOOLEAN, sendOk \in BOOLEAN, l \in IfaceLists :
        IF ~connectOk
        THEN /\ spc' = "Failed" /\ sresult' = Fail("TransportError")
             /\ UNCHANGED <<ifaces, ifindex, sent>>
        ELSE IF ~infoOk
        THEN /\ spc' = "Failed" /\ sresult' = Fail("TransportError")
             /\ UNCHANGED <<ifaces, ifindex, sent>>
        ELSE
          /\ ifaces' = l
          /\ LET k == FindIface(l) IN
             IF k = 0
             THEN /\ spc' = "Failed" /\ sresult' = Fail("NoInterface")
                  /\ UNCHANGED <<ifindex, sent>>
             ELSE LET r == le_u32(Unwrap(l[k])) IN
                  IF ~r.ok
                  THEN /\ spc' = "Failed" /\ sresult' = Fail("NotEnoughBytes")
                       /\ UNCHANGED <<ifindex, sent>>
                  ELSE /\ ifindex' = Some(r.val)
                       /\ sent' = Append(sent, [cmd |-> "TriggerScan", ifindex |-> r.val])
                       /\ IF sendOk
                          THEN spc' = "Waiting" /\ sresult' = sresult
                          ELSE spc' = "Failed" /\ sresult' = Fail("TransportError")

\* What iter.next() can hand back while waiting: nothing queued, a receive
\* failure, a message without a generic payload, or a notification.
WaitRecv == {"Nothing", "RecvErr", "NoPayload", "NewScanResults", "ScanAborted", "OtherCmd"}

\* mutant: an aborted scan is taken for a finished one
ScanCmdOutcome_AbortIsReady(m) ==
    IF m \in {"NewScanResults", "ScanAborted"} THEN "Ready" ELSE "None"

\* match genl.cmd { CmdNewScanResults => return Ok, CmdScanAborted => bail, _ => {} }
ScanCmdOutcome(m) ==
    IF m = "NewScanResults" THEN "Ready"
    ELSE IF m = "ScanAborted" THEN "Aborted"
    ELSE "None"

Min(a, b) == IF a < b THEN a ELSE b

\* One iteration of wait_scan_done's loop, or its exit by timeout. `start` and
\* the iterator are locals of wait_scan_done: they are gone when it returns Ok.
wait_scan_done ==
    /\ UNCHANGED <<backVars, walkVars, mapVars>>
    /\ spc = "Waiting"
    /\ UNCHANGED <<ifaces, ifindex, sent, lastRecv, nmsgs, out>>
    /\ IF ~WaitLoopRuns(elapsed)
       THEN /\ spc' = "Failed" /\ sresult' = Fail("ScanTimeout")
            /\ UNCHANGED <<elapsed, polls, notified>>
       ELSE \E m \in WaitRecv :
            IF m \in {"Nothing", "RecvErr"}
            THEN /\ elapsed' = Min(elapsed + SLEEP_MS, ClockCapMs)
                 /\ polls' = 1 - polls
                 /\ UNCHANGED <<spc, sresult, notified>>
            ELSE IF m = "NoPayload" \/ ScanCmdOutcome(m) = "None"
            THEN /\ polls' = 1 - polls
                 /\ UNCHANGED <<spc, sresult, elapsed, notified>>
            ELSE /\ notified' = m
                 /\ elapsed' = 0 /\ polls' = 0
                 /\ IF ScanCmdOutcome(m) = "Ready"
                    THEN spc' = "WaitDone" /\ sresult' = sresult
                    ELSE spc' = "Failed" /\ sresult' = Fail("ScanAborted")

\* The wall clock moves on while the call is in the wait loop.
Tick ==
    /\ UNCHANGED <<backVars, walkVars, mapVars>>
    /\ spc = "Waiting"
    /\ elapsed < TIMEOUT_MS
    /\ elapsed' = Min(elapsed + TickMs, ClockCapMs)
    /\ UNCHANGED <<spc, ifaces, ifindex, sent, lastRecv, polls, notified, nmsgs, out, sresult>>

\* dump_scan_results, the request: GET_SCAN with the Dump flag.
dump_scan_results_send ==
    /\ UNCHANGED <<backVars, walkVars, mapVars>>
    /\ spc = "WaitDone"
    /\ UNCHANGED <<ifaces, ifindex, elapsed, lastRecv, polls, notified, nmsgs, out>>
    /\ sent' = Append(sent, [cmd |-> "GetScan", ifindex |-> Unwrap(ifindex)])
    /\ \E sendOk \in BOOLEAN :
        IF sendOk
        THEN spc' = "Dumping" /\ sresult' = sresult
        ELSE spc' = "Failed" /\ sresult' = Fail("TransportError")

\* What iter.next() can hand back during the dump.
DumpRecv == {"Nothing", "RecvErr", "Error", "Done", "NoPayload", "Data"}

\* while let Some(Ok(msg)) = iter.next(): does the loop body run for this item
DumpLoopRuns(m) == m \notin {"Nothing", "RecvErr"}

\* One iteration of dump_scan_results' loop, or its exit.
dump_scan_results ==
    /\ UNCHANGED <<backVars, walkVars, mapVars>>
    /\ spc = "Dumping"
    /\ UNCHANGED <<ifaces, ifindex, elapsed, sent, polls, notified>>
    /\ \E m \in DumpRecv, k \in 0..MaxBssPerMsg :
        /\ m \in {"Data", "NoPayload"} => nmsgs < MaxDumpMsgs
        /\ m # "Data" => k = 0
        /\ lastRecv' = m
        /\ IF ~DumpLoopRuns(m)
           THEN /\ spc' = "Done" /\ sresult' = Ok(out)
                /\ UNCHANGED <<nmsgs, out>>
           ELSE IF m = "Error"
           THEN /\ spc' = "Failed" /\ sresult' = Fail("TransportError")
                /\ UNCHANGED <<nmsgs, out>>
           ELSE IF m = "Done"
           THEN /\ spc' = "Done" /\ sresult' = Ok(out)
                /\ UNCHANGED <<nmsgs, out>>
           ELSE /\ nmsgs' = nmsgs + 1
                /\ out' = out \o [i \in 1..k |-> <<nmsgs + 1, i>>]
                /\ UNCHANGED <<spc, sresult>>

ScanNext ==
    \/ scan_all_ssids
    \/ wait_scan_done
    \/ Tick
    \/ dump_scan_results_send
    \/ dump_scan_results

SpecScan == ScanInit /\ [][ScanNext]_vars

\* The call keeps running and the wall clock keeps moving.
LiveScan ==
    /\ ScanInit /\ [][ScanNext]_vars
    /\ WF_vars(wait_scan_done)
    /\ WF_vars(Tick)

\* ======================================================================
\* neli-wifi backend, src/backend/src/lib_rust.rs
\* ======================================================================

\* const THRESH_DBM: f32 = -80.0, in mBm
THRESH_MBM == -8000
\* const MARGIN: f32 = 10.0, in weight units of 1/100
MARGIN_W == 1000
\* r.signal_dbm.unwrap_or(-90.0), in mBm
ABSENT_SIG_MBM == -9000
\* (sig + 100.0), in mBm
WEIGHT_OFFSET == 10000

\* BSSIDs: the connected radio, a second radio of the same device (bytes 1..4
\* equal), an unrelated access point, and a truncated address.
MAC_OWN == <<170, 1, 2, 3, 4, 16>>
MAC_SAME == <<171, 1, 2, 3, 4, 17>>
MAC_OTHER == <<204, 9, 9, 9, 9, 1>>
MAC_SHORT == <<170, 1, 2>>

\* fn vec_to_mac
vec_to_mac(v) == IF Len(v) < 6 THEN None ELSE Some(SubSeq(v, 1, 6))

\* fn freq_to_channel of the backend: the table, 0 for every other frequency
backend_freq_to_channel(freq) ==
    IF freq \in 2412..2472 /\ (freq - 2412) % 5 = 0 THEN (freq - 2412) \div 5 + 1
    ELSE IF freq = 2482 THEN 14
    ELSE IF freq \in 5180..5320 /\ (freq - 5180) % 20 = 0 THEN 36 + (freq - 5180) \div 5
    ELSE IF freq \in 5500..5700 /\ (freq - 5500) % 20 = 0 THEN 100 + (freq - 5500) \div 5
    ELSE IF freq \in 5745..5885 /\ (freq - 5745) % 20 = 0 THEN 149 + (freq - 5745) \div 5
    ELSE 0

\* fn freq_band: 1 = 2.4 GHz, 2 = 5 GHz, 3 = all others
freq_band(freq_mhz) ==
    IF freq_mhz \in 2401..2495 THEN 1
    ELSE IF freq_mhz \in 5150..5895 THEN 2
    ELSE 3

\* fn same_device
same_device(a, b) == a[2] = b[2] /\ a[3] = b[3] /\ a[4] = b[4] /\ a[5] = b[5]

\* One neli_wifi::Bss turned into a BssRow by the loop of scan_all_bss. The
\* ssid field is not read by any operation modelled here and is left out.
BssRowOf(b) ==
    [bssid |-> IF IsSome(b.bssid) THEN vec_to_mac(Unwrap(b.bssid)) ELSE None,
     freq_mhz |-> b.frequency,
     signal |-> b.signal,
     channel |-> IF IsSome(b.frequency)
                 THEN LET ch == backend_freq_to_channel(Unwrap(b.frequency)) IN
                      IF ch = 0 THEN None ELSE Some(ch)
                 ELSE None]

\* lines 250-262: the channel and band of the first row whose BSSID is the
\* connected one; None when there is none or that row has no channel.
RECURSIVE CurrentFrom(_, _, _)
CurrentFrom(rs, cmac, i) ==
    IF i > Len(rs) THEN None
    ELSE IF IsSome(rs[i].bssid) /\ Unwrap(rs[i].bssid) = cmac
    THEN IF IsSome(rs[i].channel) /\ IsSome(rs[i].freq_mhz)
         THEN Some([ch |-> Unwrap(rs[i].channel),
                    band |-> freq_band(Unwrap(rs[i].freq_mhz))])
         ELSE None
    ELSE CurrentFrom(rs, cmac, i + 1)

Current(rs, conn) == IF IsSome(conn) THEN CurrentFrom(rs, Unwrap(conn), 1) ELSE None

\* lines 282-287: the row is the connected device's own BSSID or same device
OwnDevice(r, conn) ==
    /\ IsSome(conn)
    /\ IsSome(r.bssid)
    /\ (Unwrap(r.bssid) = Unwrap(conn) \/ same_device(Unwrap(conn), Unwrap(r.bssid)))

SigOf(r) == IF IsSome(r.signal) THEN Unwrap(r.signal) ELSE ABSENT_SIG_MBM

\* lines 268-287: the row adds to the weight table
Counts(r, conn) ==
    /\ IsSome(r.channel) /\ Unwrap(r.channel) > 0
    /\ IsSome(r.freq_mhz)
    /\ ~(SigOf(r) < THRESH_MBM)
    /\ ~OwnDevice(r, conn)

Max(a, b) == IF a > b THEN a ELSE b

\* line 290: (sig + 100.0).max(0.0)
WeightOf(r) == Max(SigOf(r) + WEIGHT_OFFSET, 0)

\* *weight.entry(k).or_insert(0.0) += w
AddWeight(w, k, x) ==
    [y \in DOMAIN w \cup {k} |->
        IF y = k THEN (IF k \in DOMAIN w THEN w[k] ELSE 0) + x ELSE w[y]]

\* lines 265-292: the table after the first n rows, keyed by <<band, channel>>
RECURSIVE WeightsUpTo(_, _, _)
WeightsUpTo(rs, conn, n) ==
    IF n = 0 THEN <<>>
    ELSE LET w == WeightsUpTo(rs, conn, n - 1)
             r == rs[n]
         IN  IF Counts(r, conn)
             THEN AddWeight(w, <<freq_band(Unwrap(r.freq_mhz)), Unwrap(r.channel)>>, WeightOf(r))
             ELSE w

WeightTable(rs, conn) == WeightsUpTo(rs, conn, Len(rs))

\* the orders in which a HashMap may hand out its keys
Orders(K) ==
    {f \in [1..Cardinality(K) -> K] : \A i, j \in 1..Cardinality(K) : i # j => f[i] # f[j]}

\* mutant: the best channel is sought across all bands
InBand_Any(k, cur_band) == TRUE

\* the band test of line 300
InBand(k, cur_band) == k[1] = cur_band

\* mutant: every key of the band replaces best_opt, whatever its weight
RECURSIVE BestInBand_Last(_, _, _, _)
BestInBand_Last(order, w, cur_band, n) ==
    IF n = 0 THEN None
    ELSE IF InBand(order[n], cur_band) THEN Some([ch |-> order[n][2], w |-> w[order[n]]])
    ELSE BestInBand_Last(order, w, cur_band, n - 1)

\* lines 297-308: best_opt after the first n keys of the iteration
RECURSIVE BestInBand(_, _, _, _)
BestInBand(order, w, cur_band, n) ==
    IF n = 0 THEN None
    ELSE LET b == BestInBand(order, w, cur_band, n - 1)
             k == order[n]
         IN  IF ~InBand(k, cur_band) THEN b
             ELSE IF ~IsSome(b) THEN Some([ch |-> k[2], w |-> w[k]])
             ELSE IF w[k] < Unwrap(b).w THEN Some([ch |-> k[2], w |-> w[k]])
             ELSE b

\* mutant: the comparison is turned around, keeping the heaviest entry
RECURSIVE BestGlobal_Max(_, _, _)
BestGlobal_Max(order, w, n) ==
    IF n = 0 THEN None
    ELSE LET b == BestGlobal_Max(order, w, n - 1)
             k == order[n]
         IN  IF ~IsSome(b) THEN Some([ch |-> k[2], w |-> w[k]])
             ELSE IF w[k] > Unwrap(b).w THEN Some([ch |-> k[2], w |-> w[k]])
             ELSE b

\* lines 332-339: best after the first n keys of the iteration
RECURSIVE BestGlobal(_, _, _)
BestGlobal(order, w, n) ==
    IF n = 0 THEN None
    ELSE LET b == BestGlobal(order, w, n - 1)
             k == order[n]
         IN  IF ~IsSome(b) THEN Some([ch |-> k[2], w |-> w[k]])
             ELSE IF w[k] < Unwrap(b).w THEN Some([ch |-> k[2], w |-> w[k]])
             ELSE b

\* mutant: the operands of the margin test are swapped
StayPut_Swapped(cur_w, best_w) == best_w <= cur_w + MARGIN_W

\* line 315: the current channel is within MARGIN of the best
StayPut(cur_w, best_w) == cur_w <= best_w + MARGIN_W

\* lines 246-342 of compute_best_channel_internal, for one iteration order
SelectChannel(rs, conn, order) ==
    LET w == WeightTable(rs, conn)
        cur == Current(rs, conn)
    IN  IF IsSome(cur)
        THEN LET c == Unwrap(cur)
                 best_opt == BestInBand(order, w, c.band, Len(order))
                 cur_w == IF <<c.band, c.ch>> \in DOMAIN w THEN w[<<c.band, c.ch>>] ELSE 0
             IN  IF IsSome(best_opt)
                 THEN IF StayPut(cur_w, Unwrap(best_opt).w) THEN c.ch ELSE Unwrap(best_opt).ch
                 ELSE c.ch
        ELSE IF DOMAIN w = {} THEN 1
        ELSE Unwrap(BestGlobal(order, w, Len(order))).ch

\* What a public operation returned; `from` names the function an Err was raised in.
BRunning == [kind |-> "Running", from |-> "none", ch |-> 0, rows |-> <<>>, mac |-> None]
BFail(kind, from) == [kind |-> kind, from |-> from, ch |-> 0, rows |-> <<>>, mac |-> None]
BOkRows(rs) == [kind |-> "Ok", from |-> "none", ch |-> 0, rows |-> rs, mac |-> None]
BOkMac(m) == [kind |-> "Ok", from |-> "none", ch |-> 0, rows |-> <<>>, mac |-> m]
BOkCh(c) == [kind |-> "Ok", from |-> "none", ch |-> c, rows |-> <<>>, mac |-> None]

\* An interface's index field is Option<i32> in neli-wifi.
BIndexValues == {None, Some(2), Some(3)}
BIfaceLists == UNION {[1..n -> BIndexValues] : n \in 0..MaxIfaces}

\* get_interfaces_info()?.into_iter().next() ... iface.index.ok_or_else(..)?:
\* the index of the interface taken, None when the call fails for want of one
TakeIface(l) == IF Len(l) = 0 THEN None ELSE l[1]

\* what neli-wifi reports for one BSS, in the backend's calls
BssValues ==
    [bssid : {None, Some(MAC_OWN), Some(MAC_OTHER)},
     frequency : {None, Some(2437), Some(2462)},
     signal : {None, Some(-5000)}]

\* the reports one scan can return in the backend's calls
BssLists == UNION {[1..n -> BssValues] : n \in 0..MaxScanRows}

RowsOf(bsses) == [i \in 1..Len(bsses) |-> BssRowOf(bsses[i])]

\* where a call into neli-wifi can fail: connecting, enumerating, the request
Faults == {"none", "connect", "enumerate", "request"}

\* scan_all_bss, whole.
scan_all_bss ==
    /\ bpc = "Scan"
    /\ UNCHANGED <<scanVars, walkVars, mapVars, op, connected>>
    /\ \E fault \in Faults, l \in BIfaceLists, bsses \in BssLists :
        /\ fault \in {"connect", "enumerate"} => l = <<>>
        /\ fault # "none" \/ ~IsSome(TakeIface(l)) => bsses = <<>>
        /\ IF fault \in {"connect", "enumerate"}
           THEN /\ bpc' = "Failed" /\ bresult' = BFail("TransportError", "scan_all_bss")
                /\ UNCHANGED <<bifaces, breqs, rows>>
           ELSE
             /\ bifaces' = l
             /\ IF ~IsSome(TakeIface(l))
                THEN /\ bpc' = "Failed" /\ bresult' = BFail("NoInterface", "scan_all_bss")
                     /\ UNCHANGED <<breqs, rows>>
                ELSE /\ breqs' = Append(breqs, [cmd |-> "get_bss_info", ifindex |-> Unwrap(TakeIface(l))])
                     /\ IF fault = "request"
                        THEN /\ bpc' = "Failed" /\ bresult' = BFail("TransportError", "scan_all_bss")
                             /\ UNCHANGED rows
                        ELSE /\ rows' = RowsOf(bsses)
                             /\ IF op = "scan"
                                THEN bpc' = "Done" /\ bresult' = BOkRows(RowsOf(bsses))
                                ELSE bpc' = "Lookup" /\ bresult' = bresult

\* what get_station_info reports as the station's bssid
StationBssids == {None, Some(MAC_SHORT), Some(MAC_OWN)}

\* lines 203-209: the BSSID of the station, if it has six bytes
StationMac(sb) == IF IsSome(sb) THEN vec_to_mac(Unwrap(sb)) ELSE None

\* A failure inside get_connected_bssid, handed to its caller: the function
\* returns Result, and both callers apply `?` / map_pyerr to it.
LookupFailure(kind) == BFail(kind, "get_connected_bssid")

\* get_connected_bssid, whole; in best_channel, line 244 applies `?` to it.
get_connected_bssid ==
    /\ bpc = "Lookup"
    /\ UNCHANGED <<scanVars, walkVars, mapVars, op, rows>>
    /\ \E fault \in Faults, l \in BIfaceLists, sb \in StationBssids :
        /\ fault \in {"connect", "enumerate"} => l = <<>>
        /\ fault # "none" \/ ~IsSome(TakeIface(l)) => sb = None
        /\ IF fault \in {"connect", "enumerate"}
           THEN /\ bpc' = "Failed" /\ bresult' = LookupFailure("TransportError")
                /\ UNCHANGED <<bifaces, breqs, connected>>
           ELSE
             /\ bifaces' = l
             /\ IF ~IsSome(TakeIface(l))
                THEN /\ bpc' = "Failed" /\ bresult' = LookupFailure("NoInterface")
                     /\ UNCHANGED <<breqs, connected>>
                ELSE /\ breqs' = Append(breqs, [cmd |-> "get_station_info", ifindex |-> Unwrap(TakeIface(l))])
                     /\ IF fault = "request"
                        THEN /\ bpc' = "Failed" /\ bresult' = LookupFailure("TransportError")
                             /\ UNCHANGED connected
                        ELSE /\ connected' = StationMac(sb)
                             /\ IF op = "connected_bssid"
                                THEN bpc' = "Done" /\ bresult' = BOkMac(StationMac(sb))
                                ELSE bpc' = "Select" /\ bresult' = bresult

\* compute_best_channel_internal from line 246 on: the selection.
compute_best_channel_internal ==
    /\ bpc = "Select"
    /\ op \in {"best_channel", "select"}
    /\ UNCHANGED <<scanVars, walkVars, mapVars, op, bifaces, breqs, rows, connected>>
    /\ \E order \in Orders(DOMAIN WeightTable(rows, connected)) :
        /\ bpc' = "Done"
        /\ bresult' = BOkCh(SelectChannel(rows, connected, order))

BackendInit ==
    /\ ScanOff
    /\ WalkOff
    /\ MapOff
    /\ op \in {"scan", "connected_bssid", "best_channel"}
    /\ bpc = IF op = "connected_bssid" THEN "Lookup" ELSE "Scan"
    /\ bifaces = <<>>
    /\ breqs = <<>>
    /\ rows = <<>>
    /\ connected = None
    /\ bresult = BRunning

BackendNext ==
    \/ scan_all_bss
    \/ get_connected_bssid
    \/ compute_best_channel_internal

SpecBackend == BackendInit /\ [][BackendNext]_vars

\* ---------------------------------------------------------------------
\* The two selectors on given scan results
\* ---------------------------------------------------------------------

\* fn freq_to_channel of src/lib_rust.rs
freq_to_channel(f) ==
    IF f \in 2412..2484 THEN Some((f - 2407) \div 5)
    ELSE IF f \in 5180..5885 THEN Some((f - 5000) \div 5)
    ELSE IF f \in 5955..7115 THEN Some((f - 5950) \div 5)
    ELSE None

\* r.signal_dbm.unwrap_or(-80.0) of best_channel_from_rows, in mBm
NL_ABSENT_SIG_MBM == -8000

\* A BssRow of src/lib_rust.rs for the same observation: parse_bss sets channel
\* from the frequency attribute alone. The bssid string is not read by
\* best_channel_from_rows and is kept as the address bytes.
NlRowOf(b) ==
    [bssid |-> IF IsSome(b.bssid) THEN vec_to_mac(Unwrap(b.bssid)) ELSE None,
     freq_mhz |-> b.frequency,
     signal |-> b.signal,
     channel |-> IF IsSome(b.frequency) THEN freq_to_channel(Unwrap(b.frequency)) ELSE None]

NlRowsOf(bsses) == [i \in 1..Len(bsses) |-> NlRowOf(bsses[i])]

\* lines 305-313 of src/lib_rust.rs: the table after the first n rows, by channel
RECURSIVE NlWeightsUpTo(_, _)
NlWeightsUpTo(rs, n) ==
    IF n = 0 THEN <<>>
    ELSE LET w == NlWeightsUpTo(rs, n - 1)
             r == rs[n]
         IN  IF IsSome(r.channel) /\ Unwrap(r.channel) > 0
             THEN AddWeight(w, Unwrap(r.channel),
                     (IF IsSome(r.signal) THEN Unwrap(r.signal) ELSE NL_ABSENT_SIG_MBM)
                        + WEIGHT_OFFSET)
             ELSE w

NlWeightTable(rs) == NlWeightsUpTo(rs, Len(rs))

\* lines 319-324: best after the first n keys; it starts as (1, f32::INFINITY)
RECURSIVE NlBest(_, _, _)
NlBest(order, w, n) ==
    IF n = 0 THEN [ch |-> 1, inf |-> TRUE, w |-> 0]
    ELSE LET b == NlBest(order, w, n - 1)
             k == order[n]
         IN  IF b.inf \/ w[k] < b.w THEN [ch |-> k, inf |-> FALSE, w |-> w[k]] ELSE b

\* fn best_channel_from_rows, for one iteration order
BestChannelFromRows(rs, order) ==
    LET w == NlWeightTable(rs) IN
    IF DOMAIN w = {} THEN 1 ELSE NlBest(order, w, Len(order)).ch

\* Observations the selectors are run on: the connected radio, a second radio
\* of the same device, neighbours on two channels of each band with signals
\* around the margin, and a report without a BSSID.
OwnReports ==
    [bssid : {Some(MAC_OWN)}, frequency : {None, Some(2437), Some(5180)}, signal : {Some(-3500)}]
SameDeviceReports ==
    [bssid : {Some(MAC_SAME)}, frequency : {Some(2462), Some(5200)}, signal : {Some(-3500)}]
NeighbourReports24 ==
    [bssid : {Some(MAC_OTHER)}, frequency : {Some(2437), Some(2462)},
     signal : {None, Some(-5000), Some(-4000), Some(-3500)}]
NeighbourReports5 ==
    [bssid : {Some(MAC_OTHER)}, frequency : {Some(5180), Some(5200)},
     signal : {Some(-5000), Some(-3500)}]
AnonymousReports ==
    [bssid : {None}, frequency : {Some(2437)}, signal : {Some(-3500)}]

SelValues ==
    OwnReports \cup SameDeviceReports \cup NeighbourReports24 \cup NeighbourReports5
        \cup AnonymousReports

Report(mac, f, sig) == [bssid |-> Some(mac), frequency |-> Some(f), signal |-> Some(sig)]

\* The connected device on channel 6, channel 6 at weight 50 and channel 11 at
\* weight 55 or weight 65.
Hysteresis55 ==
    <<Report(MAC_OWN, 2437, -3500), Report(MAC_OTHER, 2437, -5000), Report(MAC_OTHER, 2462, -4500)>>
Hysteresis65 ==
    <<Report(MAC_OWN, 2437, -3500), Report(MAC_OTHER, 2437, -5000), Report(MAC_OTHER, 2462, -3500)>>
\* Channel 6 at weight 65 and channel 11 at weight 50.
Hysteresis65Over50 ==
    <<Report(MAC_OWN, 2437, -3500), Report(MAC_OTHER, 2437, -3500), Report(MAC_OTHER, 2462, -5000)>>
\* Three records on channel 1 at -40, -45, -50 dBm and one on channel 6 at -80 dBm.
ThreeOnOne ==
    <<Report(MAC_OTHER, 2412, -4000), Report(MAC_OTHER, 2412, -4500),
      Report(MAC_OTHER, 2412, -5000), Report(MAC_OTHER, 2437, -8000)>>

SelLists ==
    UNION {[1..n -> SelValues] : n \in 0..MaxRows}
        \cup {Hysteresis55, Hysteresis65, Hysteresis65Over50, ThreeOnOne}

\* best_channel_from_rows of src/lib_rust.rs on the rows at hand.
best_channel_from_rows ==
    /\ bpc = "Select"
    /\ op = "from_rows"
    /\ UNCHANGED <<scanVars, walkVars, mapVars, op, bifaces, breqs, rows, connected>>
    /\ \E order \in Orders(DOMAIN NlWeightTable(rows)) :
        /\ bpc' = "Done"
        /\ bresult' = BOkCh(BestChannelFromRows(rows, order))

\* The selectors start on scan results and a connection state already at hand.
SelectInit ==
    /\ ScanOff
    /\ WalkOff
    /\ MapOff
    /\ op \in {"select", "from_rows"}
    /\ bpc = "Select"
    /\ bifaces = <<>>
    /\ breqs = <<>>
    /\ \E bsses \in SelLists :
        rows = IF op = "select" THEN RowsOf(bsses) ELSE NlRowsOf(bsses)
    /\ connected \in (IF op = "select" THEN {None, Some(MAC_OWN)} ELSE {None})
    /\ bresult = BRunning

SelectNext ==
    \/ compute_best_channel_internal
    \/ best_channel_from_rows

SpecSelect == SelectInit /\ [][SelectNext]_vars

\* ======================================================================
\* BSS attribute walk, src/lib_rust.rs
\* ======================================================================

HexDigits == <<"0", "1", "2", "3", "4", "5", "6", "7", "8", "9", "a", "b", "c", "d", "e", "f">>

\* write!(s, "{:02x}", b)
Hex2(b) == <<HexDigits[(b \div 16) + 1], HexDigits[(b % 16) + 1]>>

\* fn format_mac: the characters of aa:bb:cc:dd:ee:ff for the first six bytes
RECURSIVE format_mac_from(_, _)
format_mac_from(bytes, i) ==
    IF i > Len(bytes) \/ i > 6 THEN <<>>
    ELSE (IF i > 1 THEN <<":">> ELSE <<>>) \o Hex2(bytes[i]) \o format_mac_from(bytes, i + 1)

format_mac(bytes) == format_mac_from(bytes, 1)

\* String::from_utf8_lossy(..).to_string(), as code points: an ASCII byte is its
\* own character; a byte 0xF8..0xFF never belongs to a valid sequence and
\* becomes U+FFFD. (Other bytes above 0x7F do not occur in the buffers here.)
from_utf8_lossy(bytes) == [i \in 1..Len(bytes) |-> IF bytes[i] < 128 THEN bytes[i] ELSE 65533]

\* le_u32(payload) as i32, for four bytes
le_i32(b) ==
    b[1] + 256 * b[2] + 65536 * b[3] + 16777216 * (IF b[4] >= 128 THEN b[4] - 256 ELSE b[4])

\* line 248 of parse_ssid_ie: the declared element length fits
IeLenOk(len, left) == ~(len > left)

\* fn parse_ssid_ie: the SSID of the first element with id 0, and whether a
\* slice of the walk went past the end of `ies` (a panic)
RECURSIVE parse_ssid_ie(_)
parse_ssid_ie(ies) ==
    IF Len(ies) >= 2
    THEN LET id == ies[1]
             len == ies[2]
             rest == SubSeq(ies, 3, Len(ies))
         IN  IF ~IeLenOk(len, Len(rest)) THEN [ssid |-> None, panic |-> FALSE]
             ELSE IF len > Len(rest) THEN [ssid |-> None, panic |-> TRUE]
             ELSE IF id = 0
             THEN [ssid |-> Some(from_utf8_lossy(SubSeq(rest, 1, len))), panic |-> FALSE]
             ELSE parse_ssid_ie(SubSeq(rest, len + 1, Len(rest)))
    ELSE [ssid |-> None, panic |-> FALSE]

\* mutant: the declared length is not compared with the bytes left
AttrLenOk_NoUpper(len, remlen) == ~(len < 4)

\* line 168 of parse_bss: the declared length covers the header and fits
AttrLenOk(len, remlen) == ~(len < 4 \/ len > remlen)

\* ((len + 3) & !3)
Align4(len) == ((len + 3) \div 4) * 4

\* lines 175-228: the row after the attribute (attr_type, payload)
ApplyAttr(r, attr_type, payload) ==
    IF attr_type = 1
    THEN IF Len(payload) >= 6
         THEN [r EXCEPT !.bssid = Some(format_mac(SubSeq(payload, 1, 6)))]
         ELSE r
    ELSE IF attr_type = 2
    THEN IF Len(payload) >= 4 /\ le_u32(payload).ok
         THEN [r EXCEPT !.freq_mhz = Some(le_u32(payload).val),
                        !.channel = freq_to_channel(le_u32(payload).val)]
         ELSE r
    ELSE IF attr_type = 8
    THEN IF ~IsSome(r.ssid) /\ IsSome(parse_ssid_ie(payload).ssid)
         THEN [r EXCEPT !.ssid = parse_ssid_ie(payload).ssid]
         ELSE r
    ELSE IF attr_type = 10
    THEN IF Len(payload) >= 4
         THEN [r EXCEPT !.signal = Some(le_i32(payload))]
         ELSE r
    ELSE IF attr_type = 7
    THEN IF ~IsSome(r.signal) /\ Len(payload) > 0
         THEN [r EXCEPT !.signal = Some((payload[1] - 100) * 100)]
         ELSE r
    ELSE IF attr_type = 31
    THEN IF ~IsSome(r.ssid) /\ Len(payload) > 0
         THEN [r EXCEPT !.ssid = Some(from_utf8_lossy(payload))]
         ELSE r
    ELSE r

\* One iteration of parse_bss's loop, or its return. A slice or index outside
\* its slice is a panic.
parse_bss ==
    /\ wpc = "Walk"
    /\ UNCHANGED <<scanVars, backVars, mapVars, buf>>
    /\ LET remlen == Len(buf) - pos IN
       IF ~(remlen >= 4)
       THEN /\ wpc' = "Done"
            /\ UNCHANGED <<pos, row, hi, seen>>
       ELSE LET len == buf[pos + 1] + 256 * buf[pos + 2] IN
            IF ~AttrLenOk(len, remlen)
            THEN /\ wpc' = "Done"
                 /\ hi' = Max(hi, pos + 2)
                 /\ UNCHANGED <<pos, row, seen>>
            ELSE IF len < 4 \/ len > remlen
            THEN /\ wpc' = "Panic"
                 /\ hi' = Max(hi, pos + len)
                 /\ UNCHANGED <<pos, row, seen>>
            ELSE LET attr_type == buf[pos + 3] + 256 * buf[pos + 4]
                     payload == SubSeq(buf, pos + 5, pos + len)
                     adv == Align4(len)
                 IN  /\ hi' = Max(hi, pos + len)
                     /\ IF attr_type = 8 /\ ~IsSome(row.ssid) /\ parse_ssid_ie(payload).panic
                        THEN /\ wpc' = "Panic"
                             /\ UNCHANGED <<pos, row, seen>>
                        ELSE /\ row' = ApplyAttr(row, attr_type, payload)
                             /\ seen' = Append(seen, pos)
                             /\ IF adv > remlen
                                THEN wpc' = "Done" /\ pos' = pos
                                ELSE wpc' = "Walk" /\ pos' = pos + adv

\* one attribute as netlink lays it out: length, type, payload, zero padding
EncodeAttr(a) ==
    LET len == 4 + Len(a.payload) IN
    <<len % 256, len \div 256, a.type % 256, a.type \div 256>> \o a.payload
        \o [i \in 1..(Align4(len) - len) |-> 0]

RECURSIVE EncodeAttrs(_)
EncodeAttrs(as) == IF as = <<>> THEN <<>> ELSE EncodeAttr(Head(as)) \o EncodeAttrs(Tail(as))

Attr(t, pl) == [type |-> t, payload |-> pl]

\* attributes of a BSS payload: BSSID (whole and short), frequency 2437,
\* information elements (empty SSID, "hi", SSID after another element, an
\* element running past the end, a lone byte), signal -50.00 dBm, unspecified
\* signal 60, the alternate SSID "n", and an unknown attribute
AttrValues ==
    {Attr(1, MAC_OTHER), Attr(1, MAC_SHORT),
     Attr(2, <<133, 9, 0, 0>>),
     Attr(8, <<0, 0>>), Attr(8, <<0, 2, 104, 105>>), Attr(8, <<1, 1, 2, 0, 1, 120>>),
     Attr(8, <<0, 5, 104>>), Attr(8, <<7>>),
     Attr(10, <<120, 236, 255, 255>>),
     Attr(7, <<60>>),
     Attr(31, <<110>>),
     Attr(99, <<>>)}

AttrLists == UNION {[1..n -> AttrValues] : n \in 0..MaxAttrs}

Prefixes(b) == {SubSeq(b, 1, n) : n \in 0..Len(b)}

\* well-formed payloads and every truncation of them
EncodedBufs == UNION {Prefixes(EncodeAttrs(as)) : as \in AttrLists}

\* arbitrary bytes
RawBytes == {0, 4, 5, 8, 255}
RawBufs == UNION {[1..n -> RawBytes] : n \in 0..MaxRawLen}

WalkInit ==
    /\ ScanOff
    /\ BackOff
    /\ MapOff
    /\ wpc = "Walk"
    /\ buf \in EncodedBufs \cup RawBufs
    /\ pos = 0
    /\ row = DefaultRow
    /\ hi = 0
    /\ seen = <<>>

WalkNext == parse_bss

SpecWalk == WalkInit /\ [][WalkNext]_vars

\* parse_bss runs to its return
LiveWalk == WalkInit /\ [][WalkNext]_vars /\ WF_vars(parse_bss)

\* ======================================================================
\* Frequency mappers, src/lib_rust.rs and src/backend/src/lib_rust.rs
\* ======================================================================

\* the frequencies the mappers are applied to
Freqs == 0..MaxFreqMHz

\* row.channel = freq_to_channel(f) of parse_bss
map_nl_channel ==
    /\ mpc = "Map"
    /\ nlChannel = None
    /\ nlChannel' = Some(freq_to_channel(mapFreq))
    /\ UNCHANGED <<scanVars, backVars, walkVars, mpc, mapFreq, beChannel, beBand>>

\* let ch = freq_to_channel(&f) of scan_all_bss
map_backend_channel ==
    /\ mpc = "Map"
    /\ beChannel = None
    /\ beChannel' = Some(backend_freq_to_channel(mapFreq))
    /\ UNCHANGED <<scanVars, backVars, walkVars, mpc, mapFreq, nlChannel, beBand>>

\* let band = freq_band(freq) of compute_best_channel_internal
map_band ==
    /\ mpc = "Map"
    /\ beBand = None
    /\ beBand' = Some(freq_band(mapFreq))
    /\ UNCHANGED <<scanVars, backVars, walkVars, mpc, mapFreq, nlChannel, beChannel>>

MapInit ==
    /\ ScanOff
    /\ BackOff
    /\ WalkOff
    /\ mpc = "Map"
    /\ mapFreq \in Freqs
    /\ nlChannel = None
    /\ beChannel = None
    /\ beBand = None

MapNext == map_nl_channel \/ map_backend_channel \/ map_band

SpecMap == MapInit /\ [][MapNext]_vars

\* ======================================================================
\* Properties
\* ======================================================================

HasSent(c) == \E i \in 1..Len(sent) : sent[i].cmd = c
CountSent(c) == Cardinality({i \in 1..Len(sent) : sent[i].cmd = c})

\* C1: once the trigger request is out and the call waits, a call that is never
\* handed a "scan results ready" or "scan aborted" notification ends in
\* ScanTimeout; it times out only once the 4 s deadline has passed, and without
\* such a notification it never reaches the dump step nor returns records.
C1_TimeoutEnds ==
    /\ (spc = "Waiting") ~> (notified # "None" \/ sresult.kind = "ScanTimeout")
    /\ [](notified = "None" =>
            /\ spc \notin {"WaitDone", "Dumping", "Done"}
            /\ sresult.kind # "Ok"
            /\ ~HasSent("GetScan"))
    /\ [](sresult.kind = "ScanTimeout" =>
            /\ elapsed >= TIMEOUT_MS
            /\ notified = "None"
            /\ spc = "Failed")

C1_Witness ==
    /\ sresult.kind = "ScanTimeout"
    /\ notified = "None"
    /\ HasSent("TriggerScan")
    /\ spc = "Failed"

\* C2 (as claimed): scan() returns records only if the "dump complete" marker
\* was the message that ended the dump; any other end of the dump is a failure.
C2_OkOnlyAfterDoneMarker ==
    sresult.kind = "Ok" => lastRecv = "Done"

\* C8: the steps happen in the order trigger, wait, dump. The requests sent are
\* a prefix of <<trigger, dump>> for one interface index; the dump request is
\* there only after a "scan results ready" notification; "scan aborted" ends
\* the call with ScanAborted and no dump request; a finished call sends nothing.
C8_TriggerWaitDump ==
    /\ CountSent("TriggerScan") <= 1
    /\ CountSent("GetScan") <= 1
    /\ Len(sent) >= 1 => sent[1].cmd = "TriggerScan"
    /\ HasSent("GetScan") =>
            /\ Len(sent) = 2
            /\ sent[2].cmd = "GetScan"
            /\ sent[2].ifindex = sent[1].ifindex
            /\ notified = "NewScanResults"
    /\ notified = "ScanAborted" =>
            /\ sresult.kind = "ScanAborted"
            /\ spc = "Failed"
            /\ ~HasSent("GetScan")
    /\ spc \in {"Waiting", "WaitDone", "Dumping", "Done"} => HasSent("TriggerScan")
    /\ spc \in {"Dumping", "Done"} => HasSent("GetScan")
    /\ (spc = "Failed") = (sresult.kind \notin {"Running", "Ok"})
    /\ (spc = "Done") = (sresult.kind = "Ok")

C8_Witness ==
    /\ spc = "Done"
    /\ Len(sent) = 2
    /\ notified = "NewScanResults"
    /\ Len(out) > 0

\* ---- backend ----

BFinished == bpc \in {"Done", "Failed"}

\* C3 (as claimed): a failed connected-AP lookup is never an error of a public
\* operation: connected_bssid() always returns, and best_channel() fails only
\* with an error raised in the scan.
C3_LookupFailureIsNone ==
    /\ (op = "connected_bssid" /\ BFinished) => bresult.kind = "Ok"
    /\ (op = "best_channel" /\ bpc = "Failed") => bresult.from = "scan_all_bss"

\* the interfaces of the latest enumeration that expose an index
BUsable == {i \in 1..Len(bifaces) : IsSome(bifaces[i])}

\* C9 (as claimed): the backend's calls use the index of the first interface
\* that exposes one, skipping interfaces without index, and fail with
\* NoInterface only when no interface exposes an index.
C9_FirstUsableInterface ==
    /\ bresult.kind = "NoInterface" => BUsable = {}
    /\ (breqs # <<>> /\ BUsable # {}) =>
            breqs[Len(breqs)].ifindex =
                Unwrap(bifaces[CHOOSE i \in BUsable : \A j \in BUsable : i <= j])

\* ---- channel selector ----

Selected == bpc = "Done" /\ op \in {"select", "best_channel"} /\ bresult.kind = "Ok"

\* weight of channel ch in band b, 0.0 when the table has no entry
WeightAt(w, b, ch) == IF <<b, ch>> \in DOMAIN w THEN w[<<b, ch>>] ELSE 0

BandKeys(w, b) == {k \in DOMAIN w : k[1] = b}

IsBandMin(w, b, m) ==
    /\ \E k \in BandKeys(w, b) : w[k] = m
    /\ \A k \in BandKeys(w, b) : m <= w[k]

\* C4: with the current channel and band resolved, the selector returns the
\* current channel when the table has no entry in the band; else the current
\* channel when its weight is at most the band minimum plus MARGIN; else a
\* channel of the band whose weight is the band minimum. The returned channel's
\* weight never exceeds the band minimum plus MARGIN.
C4_StayOrBandMin ==
    (Selected /\ IsSome(Current(rows, connected))) =>
        LET w == WeightTable(rows, connected)
            c == Unwrap(Current(rows, connected))
            ch == bresult.ch
        IN  IF BandKeys(w, c.band) = {} THEN ch = c.ch
            ELSE \A m \in {w[k] : k \in BandKeys(w, c.band)} :
                    IsBandMin(w, c.band, m) =>
                        /\ WeightAt(w, c.band, c.ch) <= m + MARGIN_W => ch = c.ch
                        /\ WeightAt(w, c.band, c.ch) > m + MARGIN_W =>
                                <<c.band, ch>> \in DOMAIN w /\ w[<<c.band, ch>>] = m
                        /\ WeightAt(w, c.band, ch) <= m + MARGIN_W

\* the selector left the current channel for a quieter one of the band
C4_Witness ==
    /\ Selected
    /\ IsSome(Current(rows, connected))
    /\ bresult.ch # Unwrap(Current(rows, connected)).ch
    /\ Cardinality(BandKeys(WeightTable(rows, connected), Unwrap(Current(rows, connected)).band)) >= 2

\* C5 (as claimed): on channel 6 at weight 50, the selector returns 6 when
\* channel 11 is at weight 55 and returns 11 when channel 11 is at weight 65.
C5_HysteresisAsStated ==
    (Selected /\ connected = Some(MAC_OWN)) =>
        /\ rows = RowsOf(Hysteresis55) => bresult.ch = 6
        /\ rows = RowsOf(Hysteresis65) => bresult.ch = 11

\* C5 (amended): on channel 6 at weight 50, the selector returns 6 when
\* channel 11 is at weight 55 and also when it is at weight 65; it returns 11
\* when channel 6 is at weight 65 and channel 11 at weight 50.
C5_Hysteresis ==
    (Selected /\ connected = Some(MAC_OWN)) =>
        /\ rows = RowsOf(Hysteresis55) => bresult.ch = 6
        /\ rows = RowsOf(Hysteresis65) => bresult.ch = 6
        /\ rows = RowsOf(Hysteresis65Over50) => bresult.ch = 11

C5_Witness ==
    /\ Selected
    /\ connected = Some(MAC_OWN)
    /\ rows = RowsOf(Hysteresis65)
    /\ WeightTable(rows, connected) = (<<1, 6>> :> 5000 @@ <<1, 11>> :> 6500)
    /\ bresult.ch = 6

\* the channels the selector can return, over every iteration order of the table
Selectable(rs, conn) ==
    {SelectChannel(rs, conn, o) : o \in Orders(DOMAIN WeightTable(rs, conn))}

\* the rows whose frequency is not in band b, in order
RECURSIVE WithoutBand(_, _)
WithoutBand(rs, b) ==
    IF rs = <<>> THEN <<>>
    ELSE IF IsSome(Head(rs).freq_mhz) /\ freq_band(Unwrap(Head(rs).freq_mhz)) = b
    THEN WithoutBand(Tail(rs), b)
    ELSE <<Head(rs)>> \o WithoutBand(Tail(rs), b)

\* C6: band isolation. When step 1 resolves the current channel in one band,
\* the list with every record of the other band removed resolves the same
\* current channel and has the same set of selectable channels. Two lists that
\* differ only in records of the other band have the same list without that
\* band, so their selectable channels are equal.
C6_BandIsolation ==
    (op = "select" /\ IsSome(Current(rows, connected))) =>
        LET c == Unwrap(Current(rows, connected))
            stripped == WithoutBand(rows, 3 - c.band)
        IN  c.band \in {1, 2} =>
                /\ Current(stripped, connected) = Current(rows, connected)
                /\ Selectable(stripped, connected) = Selectable(rows, connected)
                /\ bpc = "Done" => bresult.ch \in Selectable(stripped, connected)

\* the current channel is contested in its band, and a record of the other band
\* carries the least weight of the whole table
C6_Witness ==
    /\ op = "select"
    /\ bpc = "Done"
    /\ IsSome(Current(rows, connected))
    /\ LET w == WeightTable(rows, connected)
           c == Unwrap(Current(rows, connected))
       IN  /\ c.band = 1
           /\ WeightAt(w, 1, c.ch) > MARGIN_W
           /\ \E k \in BandKeys(w, 2) : \A j \in BandKeys(w, 1) : w[k] + MARGIN_W < w[j]
           /\ WithoutBand(rows, 2) # rows

\* C7: with the current channel unknown, the selector returns a channel whose
\* weight is least among all entries of the weight table, and 1 when the table
\* is empty; so does best_channel_from_rows. Three records on channel 1 at
\* -40, -45, -50 dBm and one on channel 6 at -80 dBm give 6.
C7_GlobalMinOrOne ==
    /\ (Selected /\ ~IsSome(Current(rows, connected))) =>
        LET w == WeightTable(rows, connected) IN
        /\ DOMAIN w = {} => bresult.ch = 1
        /\ DOMAIN w # {} =>
                \E k \in DOMAIN w : k[2] = bresult.ch /\ \A j \in DOMAIN w : w[k] <= w[j]
        /\ (rows = RowsOf(ThreeOnOne) /\ connected = None) => bresult.ch = 6
    /\ (bpc = "Done" /\ op = "from_rows") =>
        LET w == NlWeightTable(rows) IN
        /\ DOMAIN w = {} => bresult.ch = 1
        /\ DOMAIN w # {} =>
                bresult.ch \in DOMAIN w /\ \A j \in DOMAIN w : w[bresult.ch] <= w[j]
        /\ rows = NlRowsOf(ThreeOnOne) => bresult.ch = 6

C7_Witness ==
    /\ Selected
    /\ connected = None
    /\ rows = RowsOf(ThreeOnOne)
    /\ WeightTable(rows, connected) = (<<1, 1>> :> 16500 @@ <<1, 6>> :> 2000)
    /\ bresult.ch = 6

\* ---- attribute walk ----

DeclaredLen(b, p) == b[p + 1] + 256 * b[p + 2]

\* the walk can take an entry at offset p: four bytes remain, and the declared
\* length is at least 4 and at most the bytes remaining
EntryAt(b, p) ==
    /\ Len(b) - p >= 4
    /\ DeclaredLen(b, p) >= 4
    /\ DeclaredLen(b, p) <= Len(b) - p

\* offsets of the entries before the first position where no entry can be taken
RECURSIVE Entries(_, _)
Entries(b, p) ==
    IF EntryAt(b, p) THEN <<p>> \o Entries(b, p + Align4(DeclaredLen(b, p))) ELSE <<>>

\* the row holding the fields of the entries at the first n of the offsets es
RECURSIVE RowOfEntries(_, _, _)
RowOfEntries(b, es, n) ==
    IF n = 0 THEN DefaultRow
    ELSE ApplyAttr(RowOfEntries(b, es, n - 1),
                   b[es[n] + 3] + 256 * b[es[n] + 4],
                   SubSeq(b, es[n] + 5, es[n] + DeclaredLen(b, es[n])))

RowFields == {"ssid", "bssid", "freq_mhz", "signal", "channel"}

\* C10: for any buffer the walk returns, never takes a byte at or past the
\* buffer's end, and never fails: it stops at the first position where fewer
\* than 4 bytes remain or the declared length is below 4 or exceeds the bytes
\* remaining, and the row keeps the fields of the entries before that position.
C10_WalkStopsInBounds ==
    /\ [](wpc # "Panic" /\ hi <= Len(buf) /\ pos <= Len(buf))
    /\ [](/\ Len(seen) <= Len(Entries(buf, 0))
          /\ seen = SubSeq(Entries(buf, 0), 1, Len(seen))
          /\ row = RowOfEntries(buf, seen, Len(seen)))
    /\ [](wpc = "Done" => seen = Entries(buf, 0))
    /\ [][\A f \in RowFields : IsSome(row[f]) => IsSome(row'[f])]_vars
    /\ <>(wpc = "Done")

\* the walk took the frequency of a first entry and stopped at a second one
\* whose declared length runs past the end of the buffer
C10_Witness ==
    /\ wpc = "Done"
    /\ Len(seen) = 1
    /\ IsSome(row.freq_mhz)
    /\ pos = 8
    /\ Len(buf) - pos >= 4
    /\ DeclaredLen(buf, pos) > Len(buf) - pos

\* the attribute type and payload of the entry at offset p
EntryType(b, p) == b[p + 3] + 256 * b[p + 4]

EntryPayload(b, p) == SubSeq(b, p + 5, p + DeclaredLen(b, p))

\* the SSIDs that the information-elements attributes of the payload yield
IeSsids(b) ==
    {parse_ssid_ie(EntryPayload(b, Entries(b, 0)[i])).ssid :
        i \in {j \in 1..Len(Entries(b, 0)) :
                /\ EntryType(b, Entries(b, 0)[j]) = 8
                /\ IsSome(parse_ssid_ie(EntryPayload(b, Entries(b, 0)[j])).ssid)}}

\* the values of the non-empty alternate SSID attributes of the payload
AltSsids(b) ==
    {Some(from_utf8_lossy(EntryPayload(b, Entries(b, 0)[i]))) :
        i \in {j \in 1..Len(Entries(b, 0)) :
                /\ EntryType(b, Entries(b, 0)[j]) = 31
                /\ Len(EntryPayload(b, Entries(b, 0)[j])) > 0}}

\* C11: for every payload and every order of its attributes, when the walk has
\* returned: if an information-elements attribute holds an SSID element, the
\* row's ssid is the value of such an element (the empty string for length 0);
\* the alternate SSID attribute's value is the ssid only when no
\* information-elements attribute of the payload yields one.
C11_IeSsidBeforeAlternate ==
    wpc = "Done" =>
        IF IeSsids(buf) # {}
        THEN row.ssid \in IeSsids(buf)
        ELSE row.ssid \in AltSsids(buf) \cup {None}

\* ---- frequency mappers ----

\* the frequency has a channel under freq_to_channel of src/lib_rust.rs
NlHasChannel == IsSome(nlChannel) /\ IsSome(Unwrap(nlChannel))

\* the frequency has a channel under the backend's table (0 stands for none)
BackendHasChannel == IsSome(beChannel) /\ Unwrap(beChannel) # 0

\* C12: for every frequency for which a channel mapping returns a channel, the
\* band classifier returns 2.4 GHz (1) or 5 GHz (2) and never Other (3).
C12_ChannelImpliesBand ==
    (IsSome(beBand) /\ (NlHasChannel \/ BackendHasChannel)) => Unwrap(beBand) \in {1, 2}

====
